---- MODULE Spec2Model ----
(***************************************************************************)
(* C4 Studio: the annotation overlay, its undo/redo history, the tool      *)
(* state machine and the layer store of src/App.tsx, as a state machine.   *)
(*                                                                         *)
(* Every React event handler is one atomic action.  A handler reads the    *)
(* state captured by the render that created it (its closure, `cl`) and    *)
(* queues updates; the updates are threaded through a record `m` ("the     *)
(* state being built"), the last write of a field winning, and the render  *)
(* that follows the handler (Render) mounts or unmounts the overlay canvas *)
(* and re-runs the effects whose dependencies changed.                     *)
(*                                                                         *)
(* The overlay raster is a row of cells: 0 is a transparent cell, 1 a      *)
(* painted one.  An ImageData is the sequence of the cells it captured.    *)
(***************************************************************************)
EXTENDS Integers, Sequences, FiniteSets, TLC

VARIABLES
    layers,          \* App.tsx:9   layer list, front first
    activeLayerId,   \* App.tsx:10
    annotationTool,  \* App.tsx:20
    isDrawing,       \* App.tsx:23
    startPos,        \* App.tsx:24  <<>> is null, <<x>> a point
    snapshot,        \* App.tsx:29  <<>> is null, <<data>> an ImageData
    history,         \* App.tsx:27
    historyStep,     \* App.tsx:28
    textInput,       \* App.tsx:32
    textValueRef,    \* App.tsx:34
    canvas,          \* App.tsx:36,608  the overlay <canvas> element held by canvasRef
    imgLoading,      \* App.tsx:599-605 the displayed <img> has a load event outstanding
    keyLayers,       \* App.tsx:109-142 what the keydown listener captured of `layers`:
                     \*   its layers with id 'annotations-layer', all that the listener reads
    resizeClosure,   \* App.tsx:215-220 what the resize listener captured of history and
                     \*   historyStep: <<history[historyStep]>>, or <<>> if there was none
    now,             \* Date.now() as addLayer last read it (App.tsx:51), 0 before
    sameMs,          \* no user event since: the read may still be in the same millisecond
    commits,         \* number of snapshots saveHistory has stored so far
    mode,            \* App.tsx:11
    modelTier,       \* App.tsx:12
    prompt,          \* App.tsx:13
    isProcessing,    \* App.tsx:15
    toast,           \* App.tsx:41-47 the notification addToast raised last
    requests,        \* the generate/edit/segment calls made so far, each with the
                     \*   point its promise has reached (part_001:26-106)
    keyHost,         \* window.aistudio: "none" if the host gives no key selection,
                     \*   else whether a key is selected (part_001:7-12)
    download,        \* App.tsx:456-462, 468-471 the files link.click() has saved
    exportPending,   \* App.tsx:439-443 the images composite exports are loading
    brushSize,       \* App.tsx:22
    arrowPath,       \* App.tsx:316-334 the paths drawArrow drew last, <<>> if none
    events           \* number of events handled so far

app == <<layers, activeLayerId, annotationTool, isDrawing, startPos, snapshot,
         history, historyStep, textInput, textValueRef, canvas, imgLoading,
         keyLayers, resizeClosure, now, commits, mode, modelTier, prompt,
         isProcessing, toast, requests, keyHost, download, exportPending,
         brushSize, arrowPath>>

vars == <<app, sameMs, events>>

(***************************************************************************)
(* Bounds of the model and program constants.                              *)
(***************************************************************************)
MaxEvents == 7
MaxLayers == 3
MaxTime == 2
DeepCommits == 22
TextCommits == 3
StudioEvents == 6
MaxRequests == 2
MaxExports == 2
MaxBrush == 12

HistoryLimit == 20

Sizes == {1, 2}
Chars == {" ", "a"}
Texts == {<<>>, <<" ">>, <<"a">>}
Tools == {"cursor", "brush", "eraser", "rect", "arrow", "text"}

AnnotationsId == "annotations-layer"
NoToast == [type |-> "none", message |-> ""]
KeyHosts == {"none", "nokey", "key"}
Modes == {"EDIT", "GENERATE"}
ModelTiers == {"NANO_BANANA", "NANO_BANANA_PRO"}
KeyRequired == "API Key selection is required for Nano Banana Pro."
ServiceErrors == {"No image data returned", "Failed"}
Null == "null"

(***************************************************************************)
(* The 2D context of the overlay canvas.                                   *)
(***************************************************************************)
Min(a, b) == IF a <= b THEN a ELSE b
Max(a, b) == IF a >= b THEN a ELSE b

Blank(w) == [i \in 1..w |-> 0]

NoCanvas == [mounted |-> FALSE, px |-> <<>>, gco |-> "source-over"]

\* A canvas element mounts with the HTML default size, which is one of the sizes
\* an image can be displayed at (here the largest), blank, in normal blending.
FreshCanvasW == CHOOSE s \in Sizes : \A t \in Sizes : t <= s

FreshCanvas == [mounted |-> TRUE, px |-> Blank(FreshCanvasW), gco |-> "source-over"]

ClearRect(px) == Blank(Len(px))

PutImageData(px, data) ==
    [i \in 1..Len(px) |-> IF i <= Len(data) THEN data[i] ELSE px[i]]

Ink(gco) == IF gco = "destination-out" THEN 0 ELSE 1

Stroke(px, a, b, gco) ==
    [i \in 1..Len(px) |-> IF Min(a, b) <= i /\ i <= Max(a, b) THEN Ink(gco) ELSE px[i]]

FillText(px, text, x) ==
    [i \in 1..Len(px) |->
        IF i >= x /\ i - x + 1 <= Len(text) /\ text[i - x + 1] # " " THEN 1 ELSE px[i]]

RECURSIVE TrimStart(_)
TrimStart(t) == IF t # <<>> /\ Head(t) = " " THEN TrimStart(Tail(t)) ELSE t

RECURSIVE TrimEnd(_)
TrimEnd(t) ==
    IF t # <<>> /\ t[Len(t)] = " " THEN TrimEnd(SubSeq(t, 1, Len(t) - 1)) ELSE t

Trim(t) == TrimEnd(TrimStart(t))

(***************************************************************************)
(* The state as a record: what a handler's closure captured (cl) and what  *)
(* its queued updates have built so far (m).  historySet records that      *)
(* setHistory was called, which gives `history` a new identity.            *)
(***************************************************************************)
St ==
    [layers |-> layers, activeLayerId |-> activeLayerId,
     annotationTool |-> annotationTool, isDrawing |-> isDrawing,
     startPos |-> startPos, snapshot |-> snapshot, history |-> history,
     historyStep |-> historyStep, textInput |-> textInput,
     textValueRef |-> textValueRef, canvas |-> canvas, now |-> now,
     commits |-> commits, mode |-> mode, modelTier |-> modelTier,
     prompt |-> prompt, isProcessing |-> isProcessing, toast |-> toast,
     requests |-> requests, keyHost |-> keyHost, download |-> download,
     exportPending |-> exportPending, brushSize |-> brushSize,
     arrowPath |-> arrowPath, sameMs |-> FALSE, historySet |-> FALSE]

\* the state as a callback of the browser finds it: no user event, so no
\* time need have passed since Date.now() was read
Callback == [St EXCEPT !.sameMs = sameMs]

\* Array.prototype.find over the positions that pass the test: the first, or 0
Find(hits) == IF hits = {} THEN 0 ELSE CHOOSE i \in hits : \A j \in hits : i <= j

IsAnnotation(l) == l.id = AnnotationsId

Annotations(ls) == {i \in 1..Len(ls) : IsAnnotation(ls[i])}

\* App.tsx:495-501
DisplayLayer(ls, active) ==
    LET a == Find({i \in 1..Len(ls) : ls[i].id = active})
    IN  IF a # 0 /\ ls[a].id # AnnotationsId THEN a
        ELSE Find({i \in 1..Len(ls) : ls[i].id # AnnotationsId /\ ls[i].visible})

DisplayId(ls, active) ==
    IF DisplayLayer(ls, active) = 0 THEN Null ELSE ls[DisplayLayer(ls, active)].id

\* App.tsx:496-497, 610-613: the canvas takes pointer events
IsAnnotationVisible(ls) ==
    IF Annotations(ls) = {} THEN TRUE ELSE ls[Find(Annotations(ls))].visible

PointerEvents ==
    /\ canvas.mounted /\ annotationTool # "cursor" /\ IsAnnotationVisible(layers)
    /\ ~isProcessing

\* App.tsx:621-638: the text <input> is rendered, and holds the focus (autoFocus)
InputShown == textInput.visible /\ canvas.mounted

(***************************************************************************)
(* Handlers.                                                               *)
(***************************************************************************)
\* Mutant: the new layer goes to the back of the list
addLayerAtBack(m, t, type) ==
    LET newLayer == [id |-> ToString(t), type |-> type, visible |-> TRUE]
    IN  [m EXCEPT !.layers = Append(@, newLayer), !.activeLayerId = newLayer.id,
                  !.now = t, !.sameMs = TRUE]

addLayer(m, t, type) ==
    LET newLayer == [id |-> ToString(t), type |-> type, visible |-> TRUE]
    IN  [m EXCEPT !.layers = <<newLayer>> \o @, !.activeLayerId = newLayer.id,
                  !.now = t, !.sameMs = TRUE]

\* Mutant: the overlay is not cleared with the history
handleDeleteLayerNoClear(cl, m, id) ==
    LET Keep(l) == l.id # id
        filtered == SelectSeq(m.layers, Keep)
        m1 == [m EXCEPT !.layers = filtered,
                        !.activeLayerId =
                            IF id = cl.activeLayerId
                            THEN (IF filtered # <<>> THEN filtered[1].id ELSE Null)
                            ELSE @]
    IN  IF id = AnnotationsId
        THEN [m1 EXCEPT !.history = <<>>, !.historyStep = -1, !.historySet = TRUE]
        ELSE m1

\* Mutant: the active id is kept when the active layer is deleted
handleDeleteLayerKeepsActive(cl, m, id) ==
    LET Keep(l) == l.id # id
        filtered == SelectSeq(m.layers, Keep)
        m1 == [m EXCEPT !.layers = filtered]
    IN  IF id = AnnotationsId
        THEN [m1 EXCEPT !.history = <<>>, !.historyStep = -1, !.historySet = TRUE,
                        !.canvas.px = ClearRect(@)]
        ELSE m1

handleDeleteLayer(cl, m, id) ==
    LET Keep(l) == l.id # id
        filtered == SelectSeq(m.layers, Keep)
        m1 == [m EXCEPT !.layers = filtered,
                        !.activeLayerId =
                            IF id = cl.activeLayerId
                            THEN (IF filtered # <<>> THEN filtered[1].id ELSE Null)
                            ELSE @]
    IN  IF id = AnnotationsId
        THEN [m1 EXCEPT !.history = <<>>, !.historyStep = -1, !.historySet = TRUE,
                        !.canvas.px = ClearRect(@)]
        ELSE m1

ensureAnnotationLayer(clLayers, m) ==
    LET e == Find(Annotations(clLayers))
        newLayer == [id |-> AnnotationsId, type |-> "segment", visible |-> TRUE]
    IN  IF e = 0
        THEN [m EXCEPT !.layers = <<newLayer>> \o @, !.activeLayerId = newLayer.id]
        ELSE IF ~clLayers[e].visible
        THEN [m EXCEPT !.layers = [i \in 1..Len(@) |->
                                      IF @[i].id = AnnotationsId
                                      THEN [@[i] EXCEPT !.visible = TRUE] ELSE @[i]],
                       !.activeLayerId = AnnotationsId]
        ELSE m

handleToolSelect(clLayers, m, tool) ==
    LET m1 == [m EXCEPT !.annotationTool = tool]
    IN  IF tool # "cursor" THEN ensureAnnotationLayer(clLayers, m1) ELSE m1

\* v is the displayed width of the image (imageRef.current.clientWidth)
\* historyStep >= 0 && history[historyStep], as a closure holds it
Current(hist, step) ==
    IF step >= 0 /\ step < Len(hist) THEN <<hist[step + 1]>> ELSE <<>>

updateCanvasSize(cur, m, v) ==
    IF m.canvas.mounted /\ Len(m.canvas.px) # v
    THEN LET sized == [mounted |-> TRUE, px |-> Blank(v), gco |-> "source-over"]
         IN  IF cur # <<>>
             THEN [m EXCEPT !.canvas = [sized EXCEPT !.px = PutImageData(@, cur[1])]]
             ELSE [m EXCEPT !.canvas = sized]
    ELSE m

\* Mutant: the snapshots after the cursor are kept
NewHistoryNoSlice(hist, step, data) ==
    LET pushed == Append(hist, data)
    IN  IF Len(pushed) > HistoryLimit THEN Tail(pushed) ELSE pushed

\* Mutant: the oldest snapshot is never evicted
NewHistoryNoShift(hist, step, data) ==
    Append(SubSeq(hist, 1, Min(step + 1, Len(hist))), data)

\* history.slice(0, historyStep + 1), push, shift
NewHistory(hist, step, data) ==
    LET sliced == SubSeq(hist, 1, Min(step + 1, Len(hist)))
        pushed == Append(sliced, data)
    IN  IF Len(pushed) > HistoryLimit THEN Tail(pushed) ELSE pushed

\* Mutant: the cursor is taken before the oldest snapshot is evicted
saveHistoryCursorFirst(cl, m) ==
    IF ~m.canvas.mounted THEN m
    ELSE LET newHistory == NewHistory(cl.history, cl.historyStep, m.canvas.px)
         IN  [m EXCEPT !.history = newHistory, !.historyStep = cl.historyStep + 1,
                       !.historySet = TRUE, !.commits = @ + 1]

saveHistory(cl, m) ==
    IF ~m.canvas.mounted THEN m
    ELSE LET newHistory == NewHistory(cl.history, cl.historyStep, m.canvas.px)
         IN  [m EXCEPT !.history = newHistory, !.historyStep = Len(newHistory) - 1,
                       !.historySet = TRUE, !.commits = @ + 1]

handleUndo(cl, m) ==
    IF ~m.canvas.mounted THEN m
    ELSE IF cl.historyStep > 0
    THEN LET newStep == cl.historyStep - 1
         IN  IF newStep < Len(cl.history)
             THEN [m EXCEPT !.historyStep = newStep,
                            !.canvas.px = PutImageData(ClearRect(@), cl.history[newStep + 1])]
             ELSE [m EXCEPT !.historyStep = newStep]
    ELSE IF cl.historyStep = 0
    THEN [m EXCEPT !.historyStep = -1, !.canvas.px = ClearRect(@)]
    ELSE m

\* Mutant: redo moves the cursor and leaves the overlay as it is
handleRedoNoPaint(cl, m) ==
    IF cl.historyStep < Len(cl.history) - 1
    THEN [m EXCEPT !.historyStep = cl.historyStep + 1]
    ELSE m

\* Mutant: redo stops one short of the last snapshot
handleRedoShort(cl, m) ==
    IF cl.historyStep < Len(cl.history) - 2
    THEN LET newStep == cl.historyStep + 1
         IN  IF m.canvas.mounted
             THEN [m EXCEPT !.historyStep = newStep,
                            !.canvas.px = PutImageData(ClearRect(@), cl.history[newStep + 1])]
             ELSE [m EXCEPT !.historyStep = newStep]
    ELSE m

handleRedo(cl, m) ==
    IF cl.historyStep < Len(cl.history) - 1
    THEN LET newStep == cl.historyStep + 1
         IN  IF m.canvas.mounted
             THEN [m EXCEPT !.historyStep = newStep,
                            !.canvas.px = PutImageData(ClearRect(@), cl.history[newStep + 1])]
             ELSE [m EXCEPT !.historyStep = newStep]
    ELSE m

\* Mutant: the typed value is kept after the commit
commitTextKeepsValue(cl, m) ==
    IF ~cl.textInput.visible THEN m
    ELSE IF Trim(m.textValueRef) = <<>>
    THEN [m EXCEPT !.textInput.visible = FALSE]
    ELSE LET painted == [m EXCEPT !.canvas.gco = "source-over",
                                  !.canvas.px = FillText(@, m.textValueRef, cl.textInput.x)]
             m1 == IF m.canvas.mounted THEN saveHistory(cl, painted) ELSE m
         IN  [m1 EXCEPT !.textInput.visible = FALSE]

commitText(cl, m) ==
    IF ~cl.textInput.visible THEN m
    ELSE IF Trim(m.textValueRef) = <<>>
    THEN [m EXCEPT !.textInput.visible = FALSE]
    ELSE LET painted == [m EXCEPT !.canvas.gco = "source-over",
                                  !.canvas.px = FillText(@, m.textValueRef, cl.textInput.x)]
             m1 == IF m.canvas.mounted THEN saveHistory(cl, painted) ELSE m
         IN  [m1 EXCEPT !.textValueRef = <<>>, !.textInput.visible = FALSE]

\* again: the <input> being removed loses the focus, and its onBlur runs
\* commitText once more with the closure of the render that showed it
commitTextTriggers(cl, m, again) ==
    IF again THEN commitText(cl, commitText(cl, m)) ELSE commitText(cl, m)

\* Mutant: a new text edit keeps the value of the edit before it
startDrawingKeepsValue(cl, m, x) ==
    IF cl.annotationTool = "cursor" THEN m
    ELSE
    LET m1 == IF cl.textInput.visible THEN commitText(cl, m) ELSE m
    IN  IF cl.textInput.visible /\ cl.annotationTool = "text" THEN m1
        ELSE
        LET m2 == ensureAnnotationLayer(cl.layers, m1)
        IN  IF ~m2.canvas.mounted THEN m2
            ELSE IF cl.annotationTool = "text"
            THEN [m2 EXCEPT !.startPos = <<x>>,
                            !.textInput = [x |-> x, visible |-> TRUE],
                            !.isDrawing = FALSE]
            ELSE [m2 EXCEPT !.isDrawing = TRUE, !.startPos = <<x>>,
                            !.snapshot = IF cl.annotationTool \in {"rect", "arrow"}
                                         THEN <<m2.canvas.px>> ELSE @,
                            !.canvas.gco = IF cl.annotationTool = "eraser"
                                           THEN "destination-out" ELSE "source-over"]

\* Mutant: a press does not commit the text being edited
startDrawingNoCommit(cl, m, x) ==
    IF cl.annotationTool = "cursor" THEN m
    ELSE
    LET m1 == m
    IN  IF cl.textInput.visible /\ cl.annotationTool = "text" THEN m1
        ELSE
        LET m2 == ensureAnnotationLayer(cl.layers, m1)
        IN  IF ~m2.canvas.mounted THEN m2
            ELSE IF cl.annotationTool = "text"
            THEN [m2 EXCEPT !.startPos = <<x>>, !.textValueRef = <<>>,
                            !.textInput = [x |-> x, visible |-> TRUE],
                            !.isDrawing = FALSE]
            ELSE [m2 EXCEPT !.isDrawing = TRUE, !.startPos = <<x>>,
                            !.snapshot = IF cl.annotationTool \in {"rect", "arrow"}
                                         THEN <<m2.canvas.px>> ELSE @,
                            !.canvas.gco = IF cl.annotationTool = "eraser"
                                           THEN "destination-out" ELSE "source-over"]

startDrawing(cl, m, x) ==
    IF cl.annotationTool = "cursor" THEN m
    ELSE
    LET m1 == IF cl.textInput.visible THEN commitText(cl, m) ELSE m
    IN  IF cl.textInput.visible /\ cl.annotationTool = "text" THEN m1
        ELSE
        LET m2 == ensureAnnotationLayer(cl.layers, m1)
        IN  IF ~m2.canvas.mounted THEN m2
            ELSE IF cl.annotationTool = "text"
            THEN [m2 EXCEPT !.startPos = <<x>>, !.textValueRef = <<>>,
                            !.textInput = [x |-> x, visible |-> TRUE],
                            !.isDrawing = FALSE]
            ELSE [m2 EXCEPT !.isDrawing = TRUE, !.startPos = <<x>>,
                            !.snapshot = IF cl.annotationTool \in {"rect", "arrow"}
                                         THEN <<m2.canvas.px>> ELSE @,
                            !.canvas.gco = IF cl.annotationTool = "eraser"
                                           THEN "destination-out" ELSE "source-over"]

\* brush/eraser: lineTo + stroke; rect: strokeRect; arrow: drawArrow
draw(cl, m, x) ==
    IF ~cl.isDrawing \/ cl.startPos = <<>> \/ ~m.canvas.mounted THEN m
    ELSE IF cl.annotationTool \in {"brush", "eraser"}
    THEN [m EXCEPT !.canvas.px = Stroke(@, cl.startPos[1], x, m.canvas.gco)]
    ELSE IF cl.annotationTool \in {"rect", "arrow"}
    THEN LET restored == IF cl.snapshot # <<>>
                         THEN PutImageData(m.canvas.px, cl.snapshot[1])
                         ELSE m.canvas.px
         IN  [m EXCEPT !.canvas.px = Stroke(restored, cl.startPos[1], x, m.canvas.gco)]
    ELSE m

\* Mutant: a release commits whether or not a session is in progress
stopDrawingAlways(cl, m) ==
    saveHistory(cl, [m EXCEPT !.isDrawing = FALSE, !.snapshot = <<>>,
                              !.canvas.gco = IF m.canvas.mounted
                                             THEN "source-over" ELSE @])

stopDrawing(cl, m) ==
    IF cl.isDrawing
    THEN saveHistory(cl, [m EXCEPT !.isDrawing = FALSE, !.snapshot = <<>>,
                                   !.canvas.gco = IF m.canvas.mounted
                                                  THEN "source-over" ELSE @])
    ELSE m

(***************************************************************************)
(* The studio: generation, editing, segmentation, export.  A request is a  *)
(* call of generateImage or editImage with what its caller does with the   *)
(* result: kind is the type of the layer addLayer is given, by is the      *)
(* handler that awaits it, stage is where the call stands ("select": the   *)
(* key selection dialog is open; "api": generateContent was called and has *)
(* not answered), issued whether generateContent was ever called.          *)
(***************************************************************************)
addToast(m, message, type) == [m EXCEPT !.toast = [type |-> type, message |-> message]]

\* Mutant: the key is never asked for
ensureApiKeyNoGate(host, model) == "api"

\* ensureApiKey up to openSelectKey: the key is asked for only for the Pro
\* model and only where window.aistudio exists
ensureApiKey(host, model) ==
    IF model = "NANO_BANANA_PRO" /\ host = "nokey" THEN "select" ELSE "api"

NewRequest(m, by, kind) ==
    LET stage == ensureApiKey(m.keyHost, m.modelTier)
    IN  [m EXCEPT !.requests = Append(@, [by |-> by, kind |-> kind,
                                          tier |-> m.modelTier, stage |-> stage,
                                          issued |-> stage = "api",
                                          error |-> ""])]

handleAction(cl, m) ==
    IF Trim(cl.prompt) = <<>>
    THEN addToast(m, <<"Please enter a prompt.">>, "error")
    ELSE LET m1 == [m EXCEPT !.isProcessing = TRUE]
             active == Find({i \in 1..Len(cl.layers) :
                               /\ cl.layers[i].id = cl.activeLayerId
                               /\ cl.layers[i].id # AnnotationsId})
             img == Find({i \in 1..Len(cl.layers) :
                            cl.layers[i].type \in {"image", "generation"}})
         IN  IF cl.mode = "GENERATE" THEN NewRequest(m1, "handleAction", "generation")
             ELSE IF active = 0 /\ img = 0
             THEN [addToast(m1, <<"Select a valid image layer to edit.">>, "error")
                      EXCEPT !.isProcessing = FALSE]
             ELSE NewRequest(m1, "handleAction", "image")

handleMagicTool(cl, m) ==
    LET active == Find({i \in 1..Len(cl.layers) :
                          /\ cl.layers[i].id = cl.activeLayerId
                          /\ cl.layers[i].id # AnnotationsId})
    IN  IF active = 0
        THEN addToast(m, <<"Select an image layer for magic tool">>, "error")
        ELSE NewRequest([m EXCEPT !.isProcessing = TRUE], "handleMagicTool", "segment")

\* openSelectKey has returned; hasSelectedApiKey is asked again
KeyChecked(m, i, hasKeyAfter) ==
    IF hasKeyAfter
    THEN [m EXCEPT !.requests[i].stage = "api", !.requests[i].issued = TRUE]
    ELSE [m EXCEPT !.requests[i].stage = "failed", !.requests[i].error = KeyRequired]

\* the awaited call has returned an image: the rest of the try block, finally
Resolved(m, i, t) ==
    LET r == m.requests[i]
        m1 == addLayer([m EXCEPT !.requests[i].stage = "done"], t, r.kind)
    IN  IF r.by = "handleAction"
        THEN [addToast(m1, <<"Processing complete!">>, "success")
                 EXCEPT !.prompt = <<>>, !.isProcessing = FALSE]
        ELSE [addToast(m1, <<"Magic segmentation complete">>, "success")
                 EXCEPT !.isProcessing = FALSE]

\* Mutant: no finally block
RejectedNoFinally(m, i, message) ==
    LET r == m.requests[i]
        m1 == [m EXCEPT !.requests[i].stage = "failed", !.requests[i].error = message]
    IN  addToast(m1, IF r.by = "handleAction" THEN <<message>>
                     ELSE <<"Magic tool failed: ", message>>, "error")

\* the awaited call has thrown: catch, finally
Rejected(m, i, message) ==
    LET r == m.requests[i]
        m1 == [m EXCEPT !.requests[i].stage = "failed", !.requests[i].error = message]
    IN  [addToast(m1, IF r.by = "handleAction" THEN <<message>>
                      ELSE <<"Magic tool failed: ", message>>, "error")
            EXCEPT !.isProcessing = FALSE]

\* handleExport's choice of the layer to export: its position, or 0
ExportLayer(ls, active) ==
    LET a == Find({i \in 1..Len(ls) : ls[i].id = active /\ ls[i].id # AnnotationsId})
    IN  IF a # 0 THEN a
        ELSE Find({i \in 1..Len(ls) : ls[i].type # "segment" /\ ls[i].visible})

\* Mutant: an empty history still counts as annotations
hasAnnotationsAnyStep(ls, step) ==
    /\ Annotations(ls) # {}
    /\ ls[Find(Annotations(ls))].visible

hasAnnotations(ls, step) ==
    /\ Annotations(ls) # {}
    /\ ls[Find(Annotations(ls))].visible
    /\ step >= 0

\* a file handed to the browser: link.href and what it was made of
SimpleExport(layer) == [href |-> "url", base |-> layer, overlay |-> <<>>]

AnnotatedExport(layer, px) == [href |-> "toDataURL", base |-> layer, overlay |-> px]

handleExport(cl, m) ==
    LET e == ExportLayer(cl.layers, cl.activeLayerId)
    IN  IF e = 0 THEN addToast(m, <<"No valid image layer to export">>, "error")
        ELSE IF hasAnnotations(cl.layers, cl.historyStep) /\ m.canvas.mounted
        THEN [m EXCEPT !.exportPending = Append(@, cl.layers[e])]
        ELSE [addToast(m, <<"Export started">>, "success")
                 EXCEPT !.download = Append(@, SimpleExport(cl.layers[e]))]

\* img.onload of the oldest export image still loading; canvasRef.current is
\* read now, and drawImage throws if the canvas is no longer there
exportOnload(m) ==
    LET m1 == [m EXCEPT !.exportPending = Tail(@)]
    IN  IF m.canvas.mounted
        THEN [addToast(m1, <<"Exported with annotations!">>, "success")
                 EXCEPT !.download = Append(@, AnnotatedExport(Head(m.exportPending),
                                                              m.canvas.px))]
        ELSE m1

(***************************************************************************)
(* The render after a handler: the canvas and the <img> exist while a      *)
(* layer is displayed (App.tsx:597-618); the keydown effect re-runs when   *)
(* history or historyStep changed (App.tsx:142), the resize effect when    *)
(* activeLayerId changed (App.tsx:220).                                    *)
(***************************************************************************)
RenderCanvas(m) ==
    IF DisplayLayer(m.layers, m.activeLayerId) = 0 THEN NoCanvas
    ELSE IF ~m.canvas.mounted THEN FreshCanvas
    ELSE m.canvas

RenderImgLoading(m, loading) ==
    IF DisplayLayer(m.layers, m.activeLayerId) = 0 THEN FALSE
    ELSE IF DisplayId(m.layers, m.activeLayerId) # DisplayId(layers, activeLayerId)
    THEN TRUE
    ELSE loading

KeydownEffect(m) ==
    IF m.historySet \/ m.historyStep # historyStep
    THEN SelectSeq(m.layers, IsAnnotation)
    ELSE keyLayers

ResizeEffect(m) ==
    IF m.activeLayerId # activeLayerId
    THEN Current(m.history, m.historyStep)
    ELSE resizeClosure

Rendered(m, loading) ==
    /\ layers' = m.layers
    /\ activeLayerId' = m.activeLayerId
    /\ annotationTool' = m.annotationTool
    /\ isDrawing' = m.isDrawing
    /\ startPos' = m.startPos
    /\ snapshot' = m.snapshot
    /\ history' = m.history
    /\ historyStep' = m.historyStep
    /\ textInput' = m.textInput
    /\ textValueRef' = m.textValueRef
    /\ canvas' = RenderCanvas(m)
    /\ imgLoading' = RenderImgLoading(m, loading)
    /\ keyLayers' = KeydownEffect(m)
    /\ resizeClosure' = ResizeEffect(m)
    /\ now' = m.now
    /\ sameMs' = m.sameMs
    /\ commits' = m.commits
    /\ mode' = m.mode
    /\ modelTier' = m.modelTier
    /\ prompt' = m.prompt
    /\ isProcessing' = m.isProcessing
    /\ toast' = m.toast
    /\ requests' = m.requests
    /\ keyHost' = m.keyHost
    /\ download' = m.download
    /\ exportPending' = m.exportPending
    /\ brushSize' = m.brushSize
    /\ arrowPath' = m.arrowPath

\* the handler's result is computed once, then rendered
Render(result, loading) == \E m \in {result} : Rendered(m, loading)

\* the App component as its first render leaves it
Constructed ==
    /\ layers = <<>>
    /\ activeLayerId = Null
    /\ annotationTool = "cursor"
    /\ isDrawing = FALSE
    /\ startPos = <<>>
    /\ snapshot = <<>>
    /\ history = <<>>
    /\ historyStep = -1
    /\ textInput = [x |-> 0, visible |-> FALSE]
    /\ textValueRef = <<>>
    /\ canvas = NoCanvas
    /\ imgLoading = FALSE
    /\ keyLayers = <<>>
    /\ resizeClosure = <<>>
    /\ now = 0
    /\ sameMs = FALSE
    /\ commits = 0
    /\ mode = "GENERATE"
    /\ modelTier = "NANO_BANANA"
    /\ prompt = <<>>
    /\ isProcessing = FALSE
    /\ toast = NoToast
    /\ requests = <<>>
    /\ download = <<>>
    /\ exportPending = <<>>
    /\ brushSize = 4
    /\ arrowPath = <<>>
    /\ events = 0

\* the drawing surface never reads the host's key selection
Init == Constructed /\ keyHost = "none"

(***************************************************************************)
(* Actions: one per event.  A click outside the canvas while the text      *)
(* <input> has the focus blurs it first (Blur), and a key typed there is   *)
(* ignored by the shortcuts (App.tsx:112), so those events need UIFree.    *)
(***************************************************************************)
UIFree == ~InputShown

\* A click outside the canvas: the pointer has left the canvas, and if a
\* session was in progress onMouseLeave has ended it (App.tsx:617)
ClickFree == UIFree /\ ~(isDrawing /\ PointerEvents)

HasActiveLayer == \E i \in 1..Len(layers) : layers[i].id = activeLayerId

\* App.tsx:363-378, 753-759, 833-839
Upload(t) ==
    /\ ClickFree
    /\ DisplayLayer(layers, activeLayerId) = 0 \/ ~HasActiveLayer
    /\ Len(layers) < MaxLayers
    /\ Render([addLayer(St, t, "image") EXCEPT !.mode = "EDIT"], imgLoading)

\* App.tsx:928, LayerItem.tsx:18
SelectLayer(i) ==
    /\ ClickFree
    /\ Render([St EXCEPT !.activeLayerId = layers[i].id], imgLoading)

\* App.tsx:929-931, LayerItem.tsx:25
ToggleVisibility(i) ==
    /\ ClickFree
    /\ Render([St EXCEPT !.layers = [j \in 1..Len(layers) |->
                                        IF layers[j].id = layers[i].id
                                        THEN [layers[j] EXCEPT !.visible = ~@]
                                        ELSE layers[j]]], imgLoading)

\* App.tsx:932, LayerItem.tsx:50
DeleteLayer(i) ==
    /\ ClickFree
    /\ Render(handleDeleteLayer(St, St, layers[i].id), imgLoading)

\* App.tsx:645-712: the floating toolbar, rendered with the canvas
ToolbarSelect(tool) ==
    /\ ClickFree
    /\ canvas.mounted
    /\ ~isProcessing
    /\ Render(handleToolSelect(layers, St, tool), imgLoading)

\* App.tsx:520-526: SELECT on the left sidebar
SidebarSelect ==
    /\ ClickFree
    /\ Render([St EXCEPT !.annotationTool = "cursor"], imgLoading)

\* App.tsx:127-134: the listener captured `layers` when the effect last ran
KeySelect(tool) ==
    /\ UIFree
    /\ Render(handleToolSelect(keyLayers, St, tool), imgLoading)

\* App.tsx:117-120, 700
Undo ==
    /\ UIFree
    /\ Render(handleUndo(St, St), imgLoading)

\* App.tsx:122-125, 703
Redo ==
    /\ UIFree
    /\ Render(handleRedo(St, St), imgLoading)

\* App.tsx:614 onMouseDown
Press(x, again) ==
    /\ PointerEvents
    /\ again => textInput.visible
    /\ LET m == startDrawing(St, St, x)
       IN  Render(IF again THEN commitText(St, m) ELSE m, imgLoading)

\* App.tsx:615 onMouseMove
Move(x) ==
    /\ PointerEvents
    /\ Render(draw(St, St, x), imgLoading)

\* App.tsx:616-617 onMouseUp, onMouseLeave
Release ==
    /\ PointerEvents
    /\ Render(stopDrawing(St, St), imgLoading)

\* App.tsx:625 onChange
TypeText(t) ==
    /\ InputShown
    /\ Render([St EXCEPT !.textValueRef = t], imgLoading)

\* App.tsx:626 onKeyDown Enter
EnterKey(again) ==
    /\ InputShown
    /\ Render(commitTextTriggers(St, St, again), imgLoading)

\* App.tsx:627 onBlur
Blur ==
    /\ InputShown
    /\ Render(commitText(St, St), imgLoading)

\* App.tsx:216: the window is resized and the image is now v wide
WindowResize(v) ==
    /\ canvas.mounted
    /\ ~imgLoading
    /\ v # Len(canvas.px)
    /\ Render(updateCanvasSize(resizeClosure, St, v), imgLoading)

\* App.tsx:604: the displayed image has loaded and is v wide
ImgLoad(v) ==
    /\ canvas.mounted
    /\ imgLoading
    /\ Render(updateCanvasSize(Current(history, historyStep), Callback, v), FALSE)

(***************************************************************************)
(* Studio events.  The loading overlay (App.tsx:778-789) covers the canvas *)
(* area while isProcessing, so the canvas and its toolbar take no clicks   *)
(* then; the header, the sidebar, the right panel and the keyboard do.     *)
(***************************************************************************)
\* App.tsx:851 onChange of the prompt textarea
SetPrompt(t) ==
    /\ ClickFree
    /\ t # prompt
    /\ Render([St EXCEPT !.prompt = t], imgLoading)

\* App.tsx:816, 822
SetMode(md) ==
    /\ ClickFree
    /\ md # mode
    /\ Render([St EXCEPT !.mode = md], imgLoading)

\* App.tsx:803
SetModelTier(tier) ==
    /\ ClickFree
    /\ tier # modelTier
    /\ Render([St EXCEPT !.modelTier = tier], imgLoading)

\* App.tsx:891-893: the action button, disabled while processing
ActionButton ==
    /\ ClickFree
    /\ ~(isProcessing \/ (mode = "EDIT" /\ ~HasActiveLayer))
    /\ Len(requests) < MaxRequests
    /\ Render(handleAction(St, St), imgLoading)

\* App.tsx:852-854: Ctrl/Cmd+Enter in the prompt textarea
CtrlEnter ==
    /\ ClickFree
    /\ Len(requests) < MaxRequests
    /\ Render(handleAction(St, St), imgLoading)

\* App.tsx:522-526: MAGIC on the left sidebar
MagicTool ==
    /\ ClickFree
    /\ Len(requests) < MaxRequests
    /\ Render(handleMagicTool(St, St), imgLoading)

\* part_001:10-15: the key dialog of request i closes, with a key picked or not
KeyDialogClosed(i, picked) ==
    /\ requests[i].stage = "select"
    /\ LET hasKeyAfter == picked \/ keyHost = "key"
           m == KeyChecked([Callback EXCEPT !.keyHost = IF picked THEN "key" ELSE @],
                           i, hasKeyAfter)
       IN  Render(IF hasKeyAfter THEN m ELSE Rejected(m, i, KeyRequired), imgLoading)

\* part_001:46-57, 79-98: generateContent returns an image, at time t
ApiSuccess(i, t) ==
    /\ requests[i].stage = "api"
    /\ Len(layers) < MaxLayers
    /\ Render(Resolved(Callback, i, t), imgLoading)

\* part_001:60-64, 101-105: generateContent fails or returns no image
ApiFailure(i, message) ==
    /\ requests[i].stage = "api"
    /\ Render(Rejected(Callback, i, message), imgLoading)

\* App.tsx:579-584
Export ==
    /\ ClickFree
    /\ Len(download) + Len(exportPending) < MaxExports
    /\ Render(handleExport(St, St), imgLoading)

\* App.tsx:443-465
ExportImgLoad ==
    /\ exportPending # <<>>
    /\ Render(exportOnload(Callback), imgLoading)

\* An event of a run of at most MaxEvents events
Step(Event) == events < MaxEvents /\ Event /\ events' = events + 1

Next ==
    \/ now < MaxTime /\ Step(Upload(now + 1))
    \/ \E i \in 1..Len(layers) : Step(SelectLayer(i))
    \/ \E i \in 1..Len(layers) : Step(ToggleVisibility(i))
    \/ \E i \in 1..Len(layers) : Step(DeleteLayer(i))
    \/ \E tool \in Tools : Step(ToolbarSelect(tool))
    \/ \E tool \in Tools : Len(layers) < MaxLayers /\ Step(KeySelect(tool))
    \/ Step(SidebarSelect)
    \/ Step(Undo)
    \/ Step(Redo)
    \/ \E x \in 1..Len(canvas.px), again \in BOOLEAN : Step(Press(x, again))
    \/ \E x \in 1..Len(canvas.px) : Step(Move(x))
    \/ Step(Release)
    \/ \E t \in Texts : Step(TypeText(t))
    \/ \E again \in BOOLEAN : Step(EnterKey(again))
    \/ Step(Blur)
    \/ \E v \in Sizes : Step(WindowResize(v))
    \/ \E v \in Sizes : Step(ImgLoad(v))

Spec == Init /\ [][Next]_vars

(***************************************************************************)
(* SpecHist: the history engine at depth.  An image is displayed, the      *)
(* brush has been chosen on the toolbar, and the user draws one session    *)
(* after the other, each painting or erasing the one cell that takes the   *)
(* overlay to the next pattern of the cycle 00, 10, 11, 01, 00, ... and    *)
(* undoes and redoes between sessions, for up to DeepCommits commits.      *)
(***************************************************************************)
LeadOnes(px) == Cardinality({i \in 1..Len(px) : \A j \in 1..i : px[j] = 1})

LeadZeros(px) == Cardinality({i \in 1..Len(px) : \A j \in 1..i : px[j] = 0})

IsRising(px) ==
    LeadOnes(px) < Len(px) /\ \A i \in (LeadOnes(px) + 1)..Len(px) : px[i] = 0

DeepTool(px) == IF IsRising(px) THEN "brush" ELSE "eraser"

DeepPos(px) == IF IsRising(px) THEN LeadOnes(px) + 1 ELSE LeadZeros(px) + 1

InitHist ==
    /\ layers = <<[id |-> AnnotationsId, type |-> "segment", visible |-> TRUE],
                  [id |-> ToString(1), type |-> "image", visible |-> TRUE]>>
    /\ activeLayerId = AnnotationsId
    /\ annotationTool = "brush"
    /\ isDrawing = FALSE
    /\ startPos = <<>>
    /\ snapshot = <<>>
    /\ history = <<>>
    /\ historyStep = -1
    /\ textInput = [x |-> 0, visible |-> FALSE]
    /\ textValueRef = <<>>
    /\ canvas = FreshCanvas
    /\ imgLoading = FALSE
    /\ keyLayers = <<>>
    /\ resizeClosure = <<>>
    /\ now = 1
    /\ sameMs = FALSE
    /\ commits = 0
    /\ mode = "EDIT"
    /\ modelTier = "NANO_BANANA"
    /\ prompt = <<>>
    /\ isProcessing = FALSE
    /\ toast = NoToast
    /\ requests = <<>>
    /\ keyHost = "none"
    /\ download = <<>>
    /\ exportPending = <<>>
    /\ brushSize = 4
    /\ arrowPath = <<>>
    /\ events = 3

NextHist ==
    \/ \E tool \in {"brush", "eraser"} :
          /\ ~isDrawing
          /\ tool # annotationTool
          /\ tool = DeepTool(canvas.px)
          /\ ToolbarSelect(tool)
          /\ UNCHANGED events
    \/ \E x \in 1..Len(canvas.px) :
          /\ ~isDrawing
          /\ commits < DeepCommits
          /\ annotationTool = DeepTool(canvas.px)
          /\ x = DeepPos(canvas.px)
          /\ Press(x, FALSE)
          /\ UNCHANGED events
    \/ \E x \in 1..Len(canvas.px) :
          /\ isDrawing
          /\ x = startPos[1]
          /\ Move(x)
          /\ UNCHANGED events
    \/ /\ isDrawing
       /\ annotationTool # DeepTool(canvas.px) \/ startPos[1] # DeepPos(canvas.px)
       /\ Release
       /\ UNCHANGED events
    \/ ~isDrawing /\ Undo /\ UNCHANGED events
    \/ ~isDrawing /\ Redo /\ UNCHANGED events
    \/ \E i \in 1..Len(layers) :
          /\ ~isDrawing
          /\ IsAnnotation(layers[i])
          /\ DeleteLayer(i)
          /\ UNCHANGED events

SpecHist == InitHist /\ [][NextHist]_vars

(***************************************************************************)
(* SpecText: a text edit left pending while a drawing tool is active.      *)
(* The text tool opened an edit with a press that also created the         *)
(* annotation layer and so left no layer displayed; the brush was then     *)
(* chosen with the key b and the image layer selected, which brought the   *)
(* canvas and the <input> back.  The user types, draws, undoes and redoes, *)
(* for up to TextCommits commits.                                          *)
(***************************************************************************)
InitText ==
    /\ layers = <<[id |-> AnnotationsId, type |-> "segment", visible |-> TRUE],
                  [id |-> AnnotationsId, type |-> "segment", visible |-> TRUE],
                  [id |-> ToString(1), type |-> "image", visible |-> FALSE]>>
    /\ activeLayerId = ToString(1)
    /\ annotationTool = "brush"
    /\ isDrawing = FALSE
    /\ startPos = <<1>>
    /\ snapshot = <<>>
    /\ history = <<>>
    /\ historyStep = -1
    /\ textInput = [x |-> 1, visible |-> TRUE]
    /\ textValueRef = <<>>
    /\ canvas = FreshCanvas
    /\ imgLoading = TRUE
    /\ keyLayers = <<>>
    /\ resizeClosure = <<>>
    /\ now = 1
    /\ sameMs = FALSE
    /\ commits = 0
    /\ mode = "EDIT"
    /\ modelTier = "NANO_BANANA"
    /\ prompt = <<>>
    /\ isProcessing = FALSE
    /\ toast = NoToast
    /\ requests = <<>>
    /\ keyHost = "none"
    /\ download = <<>>
    /\ exportPending = <<>>
    /\ brushSize = 4
    /\ arrowPath = <<>>
    /\ events = 7

NextText ==
    \/ \E t \in Texts : TypeText(t) /\ UNCHANGED events
    \/ \E x \in 1..Len(canvas.px), again \in BOOLEAN :
          commits < TextCommits /\ Press(x, again) /\ UNCHANGED events
    \/ \E x \in 1..Len(canvas.px) : Move(x) /\ UNCHANGED events
    \/ Release /\ UNCHANGED events
    \/ Blur /\ UNCHANGED events
    \/ Undo /\ UNCHANGED events
    \/ Redo /\ UNCHANGED events
    \/ \E v \in Sizes : ImgLoad(v) /\ UNCHANGED events

SpecText == InitText /\ [][NextText]_vars

(***************************************************************************)
(* SpecStudio: the studio with the drawing surface reduced to the brush.   *)
(* Date.now() does not go back, and two reads in the same millisecond      *)
(* return the same value: the callbacks of two answers, or of an answer    *)
(* and a file read, can run with no user event between them.               *)
(***************************************************************************)
InitStudio == Constructed /\ keyHost \in KeyHosts

StudioStep(Event) == events < StudioEvents /\ Event /\ events' = events + 1

Clock == {t \in {now, now + 1} : 1 <= t /\ t <= MaxTime /\ (t = now => sameMs)}

StudioTools == {"cursor", "brush"}

NextStudio ==
    \/ \E t \in Clock : StudioStep(Upload(t))
    \/ \E i \in 1..Len(layers) : StudioStep(SelectLayer(i))
    \/ \E i \in 1..Len(layers) : StudioStep(ToggleVisibility(i))
    \/ \E i \in 1..Len(layers) : StudioStep(DeleteLayer(i))
    \/ \E tool \in StudioTools : StudioStep(ToolbarSelect(tool))
    \/ \E x \in 1..Len(canvas.px) : StudioStep(Press(x, FALSE))
    \/ StudioStep(Release)
    \/ StudioStep(Undo)
    \/ \E t \in Texts : StudioStep(SetPrompt(t))
    \/ \E md \in Modes : StudioStep(SetMode(md))
    \/ \E tier \in ModelTiers : StudioStep(SetModelTier(tier))
    \/ StudioStep(ActionButton)
    \/ StudioStep(CtrlEnter)
    \/ StudioStep(MagicTool)
    \/ \E i \in 1..Len(requests), picked \in BOOLEAN : StudioStep(KeyDialogClosed(i, picked))
    \/ \E i \in 1..Len(requests), t \in Clock : StudioStep(ApiSuccess(i, t))
    \/ \E i \in 1..Len(requests), e \in ServiceErrors : StudioStep(ApiFailure(i, e))
    \/ StudioStep(Export)
    \/ StudioStep(ExportImgLoad)

SpecStudio == InitStudio /\ [][NextStudio]_vars

(***************************************************************************)
(* SpecArrow: the geometry of drawArrow.  The raster row of the other      *)
(* specifications carries no coordinates, so the arrow's paths are kept    *)
(* here, in fixed point: a coordinate c is the integer c * Scale, an angle *)
(* a whole number of degrees, and Math.cos and Math.sin are tabulated at   *)
(* the multiples of 15 degrees, rounded to 1 / Scale.  The shafts run from *)
(* the origin along the axes and the diagonals, where Math.atan2 is a      *)
(* multiple of 45 degrees.  The brush size is kept up to MaxBrush.          *)
(***************************************************************************)
Scale == 500

CosTable == [d \in {0, 15, 30, 45, 60, 75, 90} |->
                CASE d = 0 -> 500 [] d = 15 -> 483 [] d = 30 -> 433 [] d = 45 -> 354
                  [] d = 60 -> 250 [] d = 75 -> 129 [] d = 90 -> 0]

\* Math.cos of d degrees, times Scale
Cos(d) ==
    LET a == d % 360
    IN  IF a <= 90 THEN CosTable[a]
        ELSE IF a <= 180 THEN -CosTable[180 - a]
        ELSE IF a <= 270 THEN -CosTable[a - 180]
        ELSE CosTable[360 - a]

\* Math.sin of d degrees, times Scale
Sin(d) == Cos(d - 90)

\* Math.atan2(dy, dx) in degrees, for dx = 0, dy = 0 or |dx| = |dy|
Atan2(dy, dx) ==
    IF dy = 0 THEN (IF dx >= 0 THEN 0 ELSE 180)
    ELSE IF dx = 0 THEN (IF dy > 0 THEN 90 ELSE -90)
    ELSE IF dy > 0 THEN (IF dx > 0 THEN 45 ELSE 135)
    ELSE (IF dx > 0 THEN -45 ELSE -135)

\* Mutant: the head does not scale with the brush size
drawArrowFixedHead(size, fromX, fromY, toX, toY) ==
    LET headLength == 15
        angle == Atan2(toY - fromY, toX - fromX)
        to == <<toX * Scale, toY * Scale>>
    IN  [shaft |-> <<<<fromX * Scale, fromY * Scale>>, to>>,
         head |-> <<to,
                    <<to[1] - headLength * Cos(angle - 30),
                      to[2] - headLength * Sin(angle - 30)>>,
                    <<to[1] - headLength * Cos(angle + 30),
                      to[2] - headLength * Sin(angle + 30)>>,
                    to>>]

\* the two paths of drawArrow: the stroked shaft and the filled head
drawArrow(size, fromX, fromY, toX, toY) ==
    LET headLength == 15 + size
        angle == Atan2(toY - fromY, toX - fromX)
        to == <<toX * Scale, toY * Scale>>
    IN  [shaft |-> <<<<fromX * Scale, fromY * Scale>>, to>>,
         head |-> <<to,
                    <<to[1] - headLength * Cos(angle - 30),
                      to[2] - headLength * Sin(angle - 30)>>,
                    <<to[1] - headLength * Cos(angle + 30),
                      to[2] - headLength * Sin(angle + 30)>>,
                    to>>]

\* App.tsx:135-136: the keys [ and ]
BracketKey(up) ==
    /\ UIFree
    /\ Render([St EXCEPT !.brushSize = IF up THEN Min(50, @ + 2) ELSE Max(1, @ - 2)],
              imgLoading)

SliderSizes == 2..20

\* App.tsx:686-694: the brush size slider of the toolbar
BrushSlider(v) ==
    /\ ClickFree
    /\ canvas.mounted
    /\ ~isProcessing
    /\ v # brushSize
    /\ Render([St EXCEPT !.brushSize = v], imgLoading)

ArrowCoords == {-100, 0, 100}

\* App.tsx:294-297: drawArrow is applied to a shaft from the origin
DrawArrow(toX, toY) ==
    /\ PointerEvents
    /\ annotationTool = "arrow"
    /\ Render([St EXCEPT !.arrowPath = <<drawArrow(brushSize, 0, 0, toX, toY)>>],
              imgLoading)

\* an image was uploaded and the arrow chosen on the toolbar
InitArrow ==
    /\ layers = <<[id |-> AnnotationsId, type |-> "segment", visible |-> TRUE],
                  [id |-> ToString(1), type |-> "image", visible |-> TRUE]>>
    /\ activeLayerId = AnnotationsId
    /\ annotationTool = "arrow"
    /\ isDrawing = FALSE
    /\ startPos = <<>>
    /\ snapshot = <<>>
    /\ history = <<>>
    /\ historyStep = -1
    /\ textInput = [x |-> 0, visible |-> FALSE]
    /\ textValueRef = <<>>
    /\ canvas = FreshCanvas
    /\ imgLoading = TRUE
    /\ keyLayers = <<>>
    /\ resizeClosure = <<>>
    /\ now = 1
    /\ sameMs = FALSE
    /\ commits = 0
    /\ mode = "EDIT"
    /\ modelTier = "NANO_BANANA"
    /\ prompt = <<>>
    /\ isProcessing = FALSE
    /\ toast = NoToast
    /\ requests = <<>>
    /\ keyHost = "none"
    /\ download = <<>>
    /\ exportPending = <<>>
    /\ brushSize = 4
    /\ arrowPath = <<>>
    /\ events = 2

NextArrow ==
    \/ \E up \in BOOLEAN :
          (up => brushSize + 2 <= MaxBrush) /\ BracketKey(up) /\ UNCHANGED events
    \/ \E v \in SliderSizes : v <= MaxBrush /\ BrushSlider(v) /\ UNCHANGED events
    \/ \E toX, toY \in ArrowCoords : DrawArrow(toX, toY) /\ UNCHANGED events

SpecArrow == InitArrow /\ [][NextArrow]_vars

(***************************************************************************)
(* Claims.                                                                 *)
(***************************************************************************)
RECURSIVE UndoTimes(_, _)
UndoTimes(m, n) == IF n = 0 THEN m ELSE UndoTimes(handleUndo(m, m), n - 1)

RECURSIVE RedoTimes(_, _)
RedoTimes(m, n) == IF n = 0 THEN m ELSE RedoTimes(handleRedo(m, m), n - 1)

\* The N snapshots stored were committed one after the other from an empty
\* history, none discarded or evicted, and the cursor is on the last one.
AfterNCommits ==
    /\ ~isDrawing
    /\ canvas.mounted
    /\ Len(history) >= 1
    /\ Len(history) <= HistoryLimit
    /\ commits = Len(history)
    /\ historyStep = Len(history) - 1

\* C1: after N commits from an empty history (1 <= N <= 20, nothing evicted),
\* N undos followed by N redos leave the overlay equal to the last committed
\* snapshot, the cursor at N-1 and the history as it was before the undos.
C1_UndoRedoRoundTrip ==
    AfterNCommits =>
        LET N == Len(history)
            back == RedoTimes(UndoTimes(St, N), N)
        IN  /\ back.canvas.px = history[N]
            /\ back.historyStep = N - 1
            /\ back.history = history

C1_Witness ==
    /\ AfterNCommits
    /\ Len(history) = HistoryLimit
    /\ canvas.px = history[HistoryLimit]
    /\ UndoTimes(St, HistoryLimit).historyStep = -1

\* A snapshot has just been stored by saveHistory
Committed == commits' = commits + 1

\* C2: a commit made while the cursor is not on the last snapshot (cursor -1
\* with a non-empty history included) discards every snapshot after the cursor
\* and appends: the history is the old one up to the cursor plus the new
\* snapshot, the cursor is the new last index, and a redo then changes nothing.
C2_CommitDiscardsForward ==
    [][(Committed /\ historyStep < Len(history) - 1) =>
          /\ history' = Append(SubSeq(history, 1, historyStep + 1), canvas'.px)
          /\ historyStep' = Len(history') - 1
          /\ handleRedo(St, St)' = St']_vars

\* two commits, two undos down to cursor -1, one more commit
C2_Witness ==
    /\ commits = 3
    /\ Len(history) = 1
    /\ historyStep = 0
    /\ history[1] = canvas.px

\* C3: the history never holds more than 20 snapshots; a commit made with 20
\* stored and the cursor on the last evicts exactly the oldest, keeps the
\* other 19 in order, appends the new snapshot and leaves the cursor at 19,
\* on the snapshot just committed.
C3_HistoryBounded ==
    [][/\ Len(history) <= HistoryLimit
       /\ Len(history') <= HistoryLimit
       /\ (Committed /\ Len(history) = HistoryLimit
              /\ historyStep = HistoryLimit - 1) =>
             /\ history' = Append(Tail(history), canvas'.px)
             /\ historyStep' = HistoryLimit - 1
             /\ history'[historyStep' + 1] = canvas'.px]_vars

\* 21 commits in a row: the first snapshot (one cell painted on a blank
\* overlay) is gone
C3_Witness ==
    /\ commits = HistoryLimit + 1
    /\ Len(history) = HistoryLimit
    /\ historyStep = HistoryLimit - 1
    /\ history[1] # Stroke(Blank(Len(canvas.px)), 1, 1, "source-over")
    /\ history[HistoryLimit] = canvas.px

\* The overlay cv, if there is one, shows the snapshot data: the snapshot
\* put at the origin of the cleared overlay, cropped or padded to its size.
Shows(cv, data) ==
    cv.mounted => cv.px = PutImageData(Blank(Len(cv.px)), data)

IsBlank(cv) == cv.mounted => cv.px = Blank(Len(cv.px))

\* C4: undo with the cursor above 0 decrements it and shows the snapshot at
\* the new cursor; with the cursor at 0 it sets the cursor to -1 and clears
\* the overlay, the history kept; with the cursor at -1 it changes neither
\* the cursor, the history nor the overlay.
C4_UndoSemantics ==
    [][Undo =>
          /\ historyStep > 0 =>
                /\ historyStep' = historyStep - 1
                /\ Shows(canvas', history[historyStep' + 1])
          /\ historyStep = 0 =>
                /\ historyStep' = -1
                /\ IsBlank(canvas')
                /\ history' = history
          /\ historyStep = -1 => UNCHANGED <<historyStep, history, canvas>>]_vars

\* C5: redo with the cursor below the last index increments it, keeps the
\* history and shows the snapshot at the new cursor on the overlay; with the
\* cursor on the last index, or an empty history, it changes neither the
\* cursor, the history nor the overlay.
C5_RedoSemantics ==
    [][Redo =>
          IF historyStep < Len(history) - 1
          THEN /\ historyStep' = historyStep + 1
               /\ history' = history
               /\ Shows(canvas', history[historyStep' + 1])
          ELSE UNCHANGED <<historyStep, history, canvas>>]_vars

\* a redo is about to put back a snapshot that the overlay does not show
C5_Witness ==
    /\ events < MaxEvents
    /\ UIFree
    /\ canvas.mounted
    /\ historyStep < Len(history) - 1
    /\ canvas.px # history[historyStep + 2]
    /\ history[historyStep + 2] # Blank(Len(canvas.px))

\* C6: whatever tools are selected (toolbar or keyboard), whatever presses,
\* visibility toggles, additions and deletions of layers happen, the layer
\* list holds at most one layer with the id 'annotations-layer'.
C6_OneAnnotationLayer == Cardinality(Annotations(layers)) <= 1

\* C7: the release that ends a drawing session commits exactly one snapshot,
\* the overlay as the session left it, and leaves isDrawing false, the
\* session snapshot null and the composite operation normal; a release with
\* no session in progress changes nothing; no commit is made while a session
\* goes on, and the press that opens one commits nothing but a pending text.
C7_OneCommitPerSession ==
    [][/\ (Release /\ isDrawing) =>
             /\ commits' = commits + 1
             /\ canvas'.px = canvas.px
             /\ history' = NewHistory(history, historyStep, canvas.px)
             /\ historyStep' = Len(history') - 1
             /\ ~isDrawing'
             /\ snapshot' = <<>>
             /\ canvas'.gco = "source-over"
       /\ (Release /\ ~isDrawing) => UNCHANGED app
       /\ (isDrawing /\ isDrawing') => commits' = commits
       /\ (~isDrawing /\ isDrawing') =>
             \/ commits' = commits
             \/ /\ textInput.visible
                /\ Trim(textValueRef) # <<>>
                /\ commits' = commits + 1]_vars

\* one session has painted the overlay and its release has committed it; no
\* text edit was ever opened
C7_Witness ==
    /\ commits = 1
    /\ ~isDrawing
    /\ startPos # <<>>
    /\ snapshot = <<>>
    /\ textInput.x = 0
    /\ canvas.mounted
    /\ canvas.px # Blank(Len(canvas.px))
    /\ history = <<canvas.px>>
    /\ historyStep = 0

\* Enter, blur, or a press on the canvas, while the text edit is open
CommitTrigger ==
    /\ InputShown
    /\ \/ Blur
       \/ \E again \in BOOLEAN : EnterKey(again)
       \/ \E x \in 1..Len(canvas.px), again \in BOOLEAN : Press(x, again)

\* C8: a commit trigger on an empty or whitespace-only text leaves the overlay
\* and the history as they are and closes the edit; on any other text it
\* renders the text once and commits exactly one snapshot, however many
\* triggers the one event sets off, and closes the edit.  (The overlay is
\* compared while it stays on screen.)
C8_TextCommitOnce ==
    [][CommitTrigger =>
          /\ ~textInput'.visible
          /\ IF Trim(textValueRef) = <<>>
             THEN /\ UNCHANGED <<history, historyStep, commits>>
                  /\ canvas'.mounted => canvas'.px = canvas.px
             ELSE LET rendered == FillText(canvas.px, textValueRef, textInput.x)
                  IN  /\ commits' = commits + 1
                      /\ canvas'.mounted => canvas'.px = rendered
                      /\ history' = NewHistory(history, historyStep, rendered)
                      /\ historyStep' = Len(history') - 1]_vars

\* a text was typed and committed on a blank overlay: one snapshot, the
\* overlay with the text, the edit closed and the typed value emptied
C8_Witness ==
    /\ commits = 1
    /\ annotationTool = "text"
    /\ ~isDrawing
    /\ ~textInput.visible
    /\ startPos = <<textInput.x>>
    /\ textValueRef = <<>>
    /\ canvas.mounted
    /\ canvas.px = FillText(Blank(Len(canvas.px)), <<"a">>, textInput.x)
    /\ history = <<canvas.px>>
    /\ historyStep = 0

C10_ResizeRestores ==
    [][(canvas.mounted /\ canvas'.mounted /\ Len(canvas'.px) # Len(canvas.px)) =>
          IF historyStep' >= 0
          THEN Shows(canvas', history'[historyStep' + 1])
          ELSE IsBlank(canvas')]_vars

\* C11: whenever the cursor tool becomes the active tool (toolbar close
\* button, sidebar SELECT or the V key), no drawing session is in progress
\* (isDrawing is false and no pre-press snapshot is held) and no text edit
\* is pending.
C11_CursorIsIdle ==
    [][(annotationTool # "cursor" /\ annotationTool' = "cursor") =>
          /\ ~isDrawing'
          /\ snapshot' = <<>>
          /\ ~textInput'.visible]_vars

\* the annotation layer that layers.find gives: the first in the list
AnnotationLayer(ls) == ls[Find(Annotations(ls))]

\* C12: after any selection of brush, eraser, rect, arrow or text, by toolbar
\* click or by keyboard shortcut, an annotation layer exists in the layer
\* list and is visible; if none existed before, it is the new first layer of
\* the list and the active layer.
C12_ToolSelectEnsuresLayer ==
    [][\A tool \in Tools \ {"cursor"} :
          (ToolbarSelect(tool) \/ KeySelect(tool)) =>
             /\ Annotations(layers') # {}
             /\ AnnotationLayer(layers').visible
             /\ Annotations(layers) = {} =>
                   /\ layers' = <<AnnotationLayer(layers')>> \o layers
                   /\ activeLayerId' = AnnotationsId]_vars

\* C13 as stated: with the text tool active, a press on the canvas always
\* opens a fresh text edit at the press point with an empty buffer; the text
\* of an edit that was pending is discarded, neither rendered on the overlay
\* nor committed to the history.
C13_PressOpensFreshEdit ==
    [][\A x \in 1..Len(canvas.px), again \in BOOLEAN :
          (annotationTool = "text" /\ Press(x, again)) =>
             /\ textInput' = [x |-> x, visible |-> TRUE]
             /\ textValueRef' = <<>>
             /\ commits' = commits
             /\ canvas'.mounted => canvas'.px = canvas.px]_vars

\* C13 amended: with the text tool active, a press with no text edit pending
\* opens a fresh edit at the press point with an empty buffer, commits
\* nothing and starts no session; a press with an edit pending commits it (a
\* text that is not blank is rendered and stored as one snapshot, a blank one
\* is dropped) and closes it, and opens no new edit.
C13_PressOpensOrCommits ==
    [][\A x \in 1..Len(canvas.px), again \in BOOLEAN :
          (annotationTool = "text" /\ Press(x, again)) =>
             IF textInput.visible
             THEN LET blank == Trim(textValueRef) = <<>>
                      rendered == IF blank THEN canvas.px
                                  ELSE FillText(canvas.px, textValueRef, textInput.x)
                  IN  /\ textInput' = [textInput EXCEPT !.visible = FALSE]
                      /\ commits' = IF blank THEN commits ELSE commits + 1
                      /\ canvas'.mounted => canvas'.px = rendered
                      /\ UNCHANGED <<startPos, isDrawing>>
             ELSE /\ textInput' = [x |-> x, visible |-> TRUE]
                  /\ textValueRef' = <<>>
                  /\ startPos' = <<x>>
                  /\ ~isDrawing'
                  /\ commits' = commits
                  /\ canvas'.mounted => canvas'.px = canvas.px]_vars

\* the text tool is active, a text that is not blank is being edited, and
\* the canvas takes a press
C13_Witness ==
    /\ events < MaxEvents
    /\ annotationTool = "text"
    /\ InputShown
    /\ PointerEvents
    /\ Trim(textValueRef) # <<>>

DrawingTools == {"brush", "eraser", "rect", "arrow"}

\* a text that is not blank is being edited while a drawing tool is active
TextPendingForSession ==
    /\ InputShown
    /\ PointerEvents
    /\ annotationTool \in DrawingTools
    /\ Trim(textValueRef) # <<>>

C15_ExportComposite ==
    [][/\ (Export /\ ExportLayer(layers, activeLayerId) # 0) =>
             LET base == layers[ExportLayer(layers, activeLayerId)]
             IN  IF /\ Annotations(layers) # {}
                    /\ AnnotationLayer(layers).visible
                    /\ historyStep >= 0
                 THEN /\ exportPending' = Append(exportPending, base)
                      /\ download' = download
                 ELSE /\ download' = Append(download, SimpleExport(base))
                      /\ exportPending' = exportPending
       /\ (ExportImgLoad /\ canvas.mounted) =>
             download' = Append(download,
                                AnnotatedExport(Head(exportPending), canvas.px))]_vars

C15_Witness ==
    \E i \in 1..Len(download) :
        /\ download[i].href = "toDataURL"
        /\ download[i].overlay = canvas.px
        /\ download[i].base.type = "image"
        /\ historyStep >= 0

\* the base the export is said to take: the active layer if it is not the
\* overlay, else the first visible layer that is not the overlay
FirstVisibleNonOverlay(ls, active) ==
    LET a == Find({i \in 1..Len(ls) : ls[i].id = active /\ ls[i].id # AnnotationsId})
    IN  IF a # 0 THEN a
        ELSE Find({i \in 1..Len(ls) : ls[i].id # AnnotationsId /\ ls[i].visible})

\* C16: Export takes as base the active layer if it is not the overlay,
\* else the first visible non-overlay layer of any kind; with no such layer
\* it raises an error notification, outputs nothing and leaves the layers
\* and the history as they were.
C16_ExportBase ==
    [][Export =>
         LET b == FirstVisibleNonOverlay(layers, activeLayerId)
         IN  IF b = 0
             THEN /\ toast'.type = "error"
                  /\ UNCHANGED <<download, exportPending, layers, history, historyStep>>
             ELSE \/ /\ download' = Append(download, SimpleExport(layers[b]))
                     /\ exportPending' = exportPending
                  \/ /\ exportPending' = Append(exportPending, layers[b])
                     /\ download' = download]_vars

\* an action is refused before any request is made
RefusedStep == (ActionButton \/ CtrlEnter \/ MagicTool) /\ requests' = requests

\* a request fails: the key is not selected, or the service fails
RequestFailedStep ==
    \E i \in 1..Len(requests) :
        /\ requests[i].stage # "failed"
        /\ Len(requests') = Len(requests)
        /\ requests'[i].stage = "failed"

\* the refusals that return before setIsProcessing(true)
EarlyReturn ==
    \/ (ActionButton \/ CtrlEnter) /\ Trim(prompt) = <<>>
    \/ MagicTool /\ requests' = requests

\* C17 as stated: when a generate, edit or segmentation action fails, the
\* layers, the active layer, the history and the cursor are as before, an
\* error notification is raised and the processing flag is false.
C17_FailureLeavesIdle ==
    [][(RefusedStep \/ RequestFailedStep) =>
         /\ UNCHANGED <<layers, activeLayerId, history, historyStep>>
         /\ toast'.type = "error"
         /\ ~isProcessing']_vars

\* C17 amended: the same, except that an action refused for an empty prompt
\* or, for the magic tool, for want of an active image layer leaves the
\* processing flag as it was (true if another request is outstanding).
C17_FailureLeavesState ==
    [][(RefusedStep \/ RequestFailedStep) =>
         /\ UNCHANGED <<layers, activeLayerId, history, historyStep>>
         /\ toast'.type = "error"
         /\ isProcessing' = IF EarlyReturn THEN isProcessing ELSE FALSE]_vars

C17_Witness ==
    /\ \E i \in 1..Len(requests) :
          requests[i].stage = "failed" /\ requests[i].error \in ServiceErrors
    /\ toast.type = "error"
    /\ ~isProcessing
    /\ layers # <<>>
    /\ historyStep >= 0

Outstanding(r) == r.stage \in {"select", "api"}

\* C18: requests are not mutually exclusive and are never cancelled: a
\* request is outstanding until its own answer, whatever else happens, and
\* every request that resolves successfully puts exactly one new layer at
\* the front of the list as it then is and makes it active, so the layers
\* are added in the order the responses arrive.
C18_OverlappingRequests ==
    [][/\ \A i \in 1..Len(requests), t \in Clock :
             ApiSuccess(i, t) =>
                /\ layers' = <<[id |-> ToString(t), type |-> requests[i].kind,
                                 visible |-> TRUE]>> \o layers
                /\ activeLayerId' = layers'[1].id
                /\ requests' = [requests EXCEPT ![i].stage = "done"]
       /\ Len(requests') >= Len(requests)
       /\ \A j \in 1..Len(requests) :
             (Outstanding(requests[j]) /\ requests'[j] # requests[j]) =>
                \/ \E picked \in BOOLEAN : KeyDialogClosed(j, picked)
                \/ \E t \in Clock : ApiSuccess(j, t)
                \/ \E e \in ServiceErrors : ApiFailure(j, e)]_vars

\* a second request was issued while the first was outstanding, one has been
\* answered and has its layer, active, at the front; the other is still
\* outstanding and the processing flag is false
C18_Witness ==
    /\ Len(requests) = 2
    /\ \A i \in 1..2 : requests[i].by = "handleAction"
    /\ \E i, j \in 1..2 : requests[i].stage = "done" /\ requests[j].stage = "api"
    /\ ~isProcessing
    /\ layers # <<>>
    /\ layers[1].type = "generation"
    /\ activeLayerId = layers[1].id

\* C19 as stated: no Pro request reaches the image API without a selected
\* key; with no key the selection dialog is opened, and if there is still
\* none the request fails with the dedicated error and is never issued.
\* Requests for the fast model are never gated.
C19_ProGated ==
    \A i \in 1..Len(requests) :
        LET r == requests[i]
        IN  /\ (r.tier = "NANO_BANANA_PRO" /\ r.issued) => keyHost = "key"
            /\ (r.tier = "NANO_BANANA_PRO" /\ keyHost = "nokey") =>
                  /\ r.stage \in {"select", "failed"}
                  /\ r.stage = "failed" => r.error = KeyRequired
            /\ r.error = KeyRequired => (~r.issued /\ r.tier = "NANO_BANANA_PRO")
            /\ r.tier = "NANO_BANANA" => (r.issued /\ r.error # KeyRequired)

\* C19 amended: the same where the host provides the key selection
\* interface (window.aistudio); where it does not, Pro requests are issued
\* without any check.
C19_ProGatedByHost ==
    \A i \in 1..Len(requests) :
        LET r == requests[i]
        IN  /\ (r.tier = "NANO_BANANA_PRO" /\ r.issued) => keyHost \in {"key", "none"}
            /\ (r.tier = "NANO_BANANA_PRO" /\ keyHost = "nokey") =>
                  /\ r.stage \in {"select", "failed"}
                  /\ r.stage = "failed" => r.error = KeyRequired
            /\ r.error = KeyRequired => (~r.issued /\ r.tier = "NANO_BANANA_PRO")
            /\ r.tier = "NANO_BANANA" => (r.issued /\ r.error # KeyRequired)
            /\ keyHost = "none" => r.issued

C19_Witness ==
    /\ keyHost = "nokey"
    /\ toast = [type |-> "error", message |-> <<KeyRequired>>]
    /\ \E i \in 1..Len(requests) :
          /\ requests[i].tier = "NANO_BANANA_PRO"
          /\ requests[i].stage = "failed"
          /\ ~requests[i].issued

\* C20: no two layers made by an upload or by the completion of a generate,
\* edit or segmentation request share an id.
C20_UniqueIds ==
    \A i, j \in 1..Len(layers) :
        (i # j /\ ~IsAnnotation(layers[i]) /\ ~IsAnnotation(layers[j])) =>
            layers[i].id # layers[j].id

ShapeTools == {"rect", "arrow"}

\* C21: in a session where rect or arrow is the tool, every move restores
\* the overlay to the snapshot taken at the press and then draws one shape
\* from the press point to the pointer, so the overlay is the pre-press
\* overlay plus that one shape.
C21_PreviewNeverAccumulates ==
    [][\A x \in 1..Len(canvas.px) :
          (Move(x) /\ isDrawing /\ startPos # <<>> /\ annotationTool \in ShapeTools) =>
             /\ snapshot # <<>>
             /\ canvas'.px = Stroke(snapshot[1], startPos[1], x, "source-over")]_vars

\* C22: every mark of a session is composited by the tool that draws it,
\* destination-out for the eraser and source-over for brush, rect and arrow,
\* and with no session in progress the compositing mode is source-over.
C22_CompositeByTool ==
    [][/\ \A x \in 1..Len(canvas.px) :
             (/\ Move(x)
              /\ isDrawing
              /\ startPos # <<>>
              /\ annotationTool \in DrawingTools) =>
                /\ canvas.gco = IF annotationTool = "eraser"
                                 THEN "destination-out" ELSE "source-over"
                /\ \A c \in 1..Len(canvas.px) :
                      IF annotationTool = "eraser"
                      THEN canvas'.px[c] = 1 => canvas.px[c] = 1
                      ELSE annotationTool = "brush" =>
                              (canvas.px[c] = 1 => canvas'.px[c] = 1)
       /\ (~isDrawing' /\ canvas'.mounted) => canvas'.gco = "source-over"]_vars

\* the square of the distance between two points
Dist2(p, q) == (p[1] - q[1]) * (p[1] - q[1]) + (p[2] - q[2]) * (p[2] - q[2])

\* a and b differ by at most one part in a hundred of b
Near(a, b) == a - b <= b \div 100 /\ b - a <= b \div 100

\* the back vertex b of a head of length h at the tip of a shaft of
\* direction (dx, dy): at distance h from the tip, and the direction from b
\* to the tip at 30 degrees from the shaft's, on the side given by side
BackVertex(b, tip, h, dx, dy, side) ==
    LET w == <<(tip[1] - b[1]) \div h, (tip[2] - b[2]) \div h>>
        dot == w[1] * dx + w[2] * dy
        cross == dx * w[2] - dy * w[1]
    IN  /\ Near(Dist2(tip, b), h * h * Scale * Scale)
        /\ (dx # 0 \/ dy # 0) =>
              /\ dot > 0
              /\ Near(4 * dot * dot, 3 * (w[1] * w[1] + w[2] * w[2]) * (dx * dx + dy * dy))
              /\ cross * side > 0

\* C23: the head length is 15 plus the brush size and the two back vertices
\* of the head are at that distance from the end point, at -30 and +30
\* degrees from the shaft; for the shaft (0,0)->(100,0) and brush size 4 they
\* are at distance 19 from (100,0).
C23_Arrowhead ==
    [][\A toX, toY \in ArrowCoords :
          DrawArrow(toX, toY) =>
             LET path == arrowPath'[1]
                 tip == <<toX * Scale, toY * Scale>>
                 h == 15 + brushSize
                 dx == toX \div 100
                 dy == toY \div 100
             IN  /\ path.shaft = <<<<0, 0>>, tip>>
                 /\ Len(path.head) = 4
                 /\ path.head[1] = tip
                 /\ path.head[4] = tip
                 /\ BackVertex(path.head[2], tip, h, dx, dy, -1)
                 /\ BackVertex(path.head[3], tip, h, dx, dy, 1)
                 /\ (toX = 100 /\ toY = 0 /\ brushSize = 4) =>
                       /\ h = 19
                       /\ path.head[2] = <<100 * Scale - 19 * 433, 19 * 250>>
                       /\ path.head[3] = <<100 * Scale - 19 * 433, -(19 * 250)>>
                       /\ Near(Dist2(path.head[2], tip), 19 * 19 * Scale * Scale)
                       /\ Near(Dist2(path.head[3], tip), 19 * 19 * Scale * Scale)]_vars

C23_Witness ==
    /\ brushSize = 4
    /\ arrowPath = <<drawArrow(4, 0, 0, 100, 0)>>

\* C24: the history cursor is at least -1 and at most the index of the last
\* stored snapshot.
C24_CursorInRange ==
    /\ -1 <= historyStep
    /\ historyStep <= Len(history) - 1

\* the oldest snapshot was evicted and an undo has moved the cursor back
C24_Witness ==
    /\ commits > HistoryLimit
    /\ Len(history) = HistoryLimit
    /\ historyStep >= 0
    /\ historyStep < HistoryLimit - 1

\* C25: with no drawing session in progress the overlay shows the snapshot
\* at the history cursor if the cursor is >= 0 and is blank if it is -1.
C25_OverlayIsCurrent ==
    (~isDrawing /\ canvas.mounted /\ C24_CursorInRange) =>
        IF historyStep >= 0
        THEN Shows(canvas, history[historyStep + 1])
        ELSE IsBlank(canvas)

\* C26: whenever the history cursor is >= 0 the layer list holds a layer
\* with the id 'annotations-layer'.
C26_ContentHasLayer == historyStep >= 0 => Annotations(layers) # {}

\* C27: the active layer id is null or the id of a layer of the list; a
\* layer that is added goes to the front and becomes active; deleting the
\* active layer makes the new first layer active, or null if none is left;
\* deleting another layer leaves the active id as it was.
C27_ActiveLayerExists ==
    [][/\ activeLayerId = Null \/ HasActiveLayer
       /\ activeLayerId' = Null \/ HasActiveLayer'
       /\ Len(layers') > Len(layers) =>
             /\ Tail(layers') = layers
             /\ activeLayerId' = layers'[1].id
       /\ \A i \in 1..Len(layers) :
             DeleteLayer(i) =>
                /\ \A j \in 1..Len(layers') : layers'[j].id # layers[i].id
                /\ activeLayerId' =
                      IF layers[i].id # activeLayerId THEN activeLayerId
                      ELSE IF layers' # <<>> THEN layers'[1].id
                      ELSE Null]_vars

\* the uploaded image was active and has been deleted: the annotation layer,
\* now first, is active
C27_Witness ==
    /\ now = 1
    /\ layers # <<>>
    /\ \A i \in 1..Len(layers) : layers[i].id # ToString(1)
    /\ activeLayerId = layers[1].id
    /\ canvas = NoCanvas

====
